---- MODULE Spec2Model ----
(***************************************************************************)
(* A model of the Evo backend core: the RAG pipeline's corpus              *)
(* (backend/app/rag/pipeline.py) and the multi-model answer fusion         *)
(* (backend/app/orchestrator/msync.py).                                    *)
(*                                                                         *)
(* The backend runs on one asyncio event loop: a coroutine runs without    *)
(* interruption from one await to the next, so every action below is the   *)
(* code between two awaits of one coroutine.                               *)
(***************************************************************************)
EXTENDS Integers, Sequences, FiniteSets, TLC

\* ------------------------------------------------------------------ bounds
\* Ingest calls (uploads) per behaviour.
MaxIngests == 2
\* Chunks that _chunk may cut one upload into.
MaxChunks == 2
\* Length of the model list of one fused chat request.
MaxModels == 3
MaxTopK == 2
MaxPrior == 1
MaxSpans == 2
MaxHashKeys == 3
MaxAdds == 52
MaxReqs == 2

\* ------------------------------------------------------- program constants
\* pipeline.py:83  rng.standard_normal(384)
FallbackDim == 384
\* max_tokens of _chunk
MaxTokens == 500
\* the turns ShortTermMemory keeps per session
MemCap == 50
\* LIMIT of get_messages
LongLimit == 200
\* top_k of the chat handler's retrieve
ChatTopK == 4
\* the modulus of the fallback seed
SeedModulus == 100000000
\* The vector lengths the configured embedding model of a deployment may
\* produce: the length of the fallback, or another one (nomic-embed-text: 768).
BackendDims == {FallbackDim, 2 * FallbackDim}

VARIABLES
    docs,        \* RagPipeline.docs: the chunk texts, in corpus order
    embeddings,  \* RagPipeline.embeddings: None, or the matrix (its rows)
    storeFile,   \* rag/store.txt: absent, or its characters
    embFile,     \* rag/emb.npy: absent, or the rows of the saved matrix
    ingest,      \* the save_and_ingest calls, by call id
    backendDim,  \* the vector length the embedding backend answers with
    fpc,         \* MultiModelOrchestrator.chat: where the request is
    calls,       \* the ask(m) coroutines of the request, by position in model_list
    completed,   \* the positions of the finished ask coroutines, in completion order
    reply,       \* what MultiModelOrchestrator.chat returned
    retrieval,   \* the call of RagPipeline.retrieve: where it is, what it read and returned
    hpc,         \* the /api/chat handler: where the request is
    guidance,    \* the handler's context blocks, by label
    hashSeed,    \* the per-process seed of str.__hash__ (PYTHONHASHSEED unset)
    fbLog,       \* the fallback vectors derived so far, with their texts
    chunkIn,     \* the number of words of the text given to _chunk
    chunkOut,    \* what _chunk returned
    memory,      \* ShortTermMemory._memory
    added,       \* per session, every turn added since its last clear
    allowWeb,    \* settings.allow_web_access
    searches,    \* the web searches triggered so far: by what, and under which setting
    reqs,        \* the /api/chat requests of several clients: where each one is
    longTerm,    \* the rows of the conversations table, in id order
    got          \* the caller that holds a list from ShortTermMemory.get

ragVars == <<docs, embeddings, storeFile, embFile, ingest, backendDim>>
fuseVars == <<fpc, calls, completed, reply>>
retrVars == <<retrieval>>
chatVars == <<hpc, guidance>>
hashVars == <<hashSeed, fbLog>>
chunkVars == <<chunkIn, chunkOut>>
memVars == <<memory, added>>
webVars == <<allowWeb, searches>>
servVars == <<reqs, longTerm, got>>
vars == <<docs, embeddings, storeFile, embFile, ingest, backendDim,
          fpc, calls, completed, reply, retrieval, hpc, guidance,
          hashSeed, fbLog, chunkIn, chunkOut, memory, added,
          allowWeb, searches, reqs, longTerm, got>>
\* What the ingest actions leave alone, and what the fusion actions leave alone.
besideRag ==
    <<fuseVars, retrVars, chatVars, hashVars, chunkVars, memVars, webVars, servVars>>
besideFuse ==
    <<ragVars, retrVars, chatVars, hashVars, chunkVars, memVars, webVars, servVars>>

\* =================================================================== RAG
\* self.embeddings: np.ndarray | None
NoMatrix == [none |-> TRUE, rows |-> <<>>]
Matrix(rows) == [none |-> FALSE, rows |-> rows]
\* A file of the data directory: absent, or its content.
NoFile == [exists |-> FALSE, data |-> <<>>]
File(data) == [exists |-> TRUE, data |-> data]

IngestIds == 1 .. MaxIngests

\* A text is the sequence of its characters.
Digits == <<"0", "1", "2", "3", "4", "5", "6", "7", "8", "9">>

\* The words of a chunk joined by newlines.
JoinWordsByNewline(ws) ==
    IF Len(ws) = 0 THEN <<>>
    ELSE ws[1] \o [i \in 1 .. 3 * (Len(ws) - 1) |->
                     IF i % 3 = 1 THEN "\n" ELSE ws[(i + 2) \div 3 + 1][(i + 2) % 3]]

\* " ".join(current) in _chunk, for words of two characters
JoinWords(ws) ==
    IF Len(ws) = 0 THEN <<>>
    ELSE ws[1] \o [i \in 1 .. 3 * (Len(ws) - 1) |->
                     IF i % 3 = 1 THEN " " ELSE ws[(i + 2) \div 3 + 1][(i + 2) % 3]]

\* The chunks of upload t when _chunk cuts it into n chunks: the k-th chunk of
\* upload t is the two words "u<t>" and "c<k>", joined as _chunk joins words.
\* Upload 0 is the upload of an earlier run of the program.
ChunksOf(t, n) ==
    [k \in 1 .. n |-> JoinWords(<< <<"u", Digits[t + 1]>>, <<"c", Digits[k + 1]>> >>)]

\* f.write(d + "\n")
WriteLine(d) == d \o <<"\n">>

RECURSIVE WriteStore(_)
\* The characters of store.txt after the write loop over ds.
WriteStore(ds) ==
    IF ds = <<>> THEN <<>> ELSE WriteLine(Head(ds)) \o WriteStore(Tail(ds))

RECURSIVE LineEnd(_, _)
\* The index of the first newline of cs at or after k; Len(cs) + 1 without one.
LineEnd(cs, k) ==
    IF k > Len(cs) \/ cs[k] = "\n" THEN k ELSE LineEnd(cs, k + 1)

RECURSIVE ReadStore(_)
\* [line.rstrip("\n") for line in f]: the lines of the characters cs
ReadStore(cs) ==
    IF cs = <<>> THEN <<>>
    ELSE LET e == LineEnd(cs, 1)
         IN <<SubSeq(cs, 1, e - 1)>> \o ReadStore(SubSeq(cs, e + 1, Len(cs)))

\* What `await self.ollama.embed(...)` may do for one chunk.
EmbedOutcomes == {"vector", "empty", "error"}

\* What the two writes of the persist step may do.
IOOutcomes == {"ok", "store_open_fails", "store_write_fails", "emb_save_fails"}

\* _load: the chunk list read back from store.txt.
LoadDocs(store) == IF store.exists THEN ReadStore(store.data) ELSE <<>>

\* _load: the matrix read back from emb.npy.
LoadEmbeddings(emb) == IF emb.exists THEN Matrix(emb.data) ELSE NoMatrix

\* A vector the backend answered for chunk c.
BackendVector(c) == [src |-> c, dim |-> backendDim, fallback |-> FALSE]

\* The hash-seeded vector of the except branch.
FallbackVector(c) == [src |-> c, dim |-> FallbackDim, fallback |-> TRUE]

\* A failed embed leaves the chunk without a vector.
EmbedOneDropsFailed(vecs, c, outcome) ==
    IF outcome = "vector" THEN Append(vecs, BackendVector(c)) ELSE vecs

\* One iteration of the loop of _embed_texts: the vector appended for chunk c.
\* An empty answer raises inside the try, so it takes the except branch too.
EmbedOne(vecs, c, outcome) ==
    IF outcome = "vector"
    THEN Append(vecs, BackendVector(c))
    ELSE Append(vecs, FallbackVector(c))

\* np.array(vectors, dtype=np.float32) raises ValueError on rows of unequal length.
Homogeneous(vecs) == \A i, j \in 1 .. Len(vecs) : vecs[i].dim = vecs[j].dim

\* np.vstack raises ValueError when the column counts differ.
Stackable(rows, vecs) ==
    \A i \in 1 .. Len(rows) : \A j \in 1 .. Len(vecs) : rows[i].dim = vecs[j].dim

\* The new rows stacked above the old ones.
VStackNewFirst(rows, vecs) == vecs \o rows

\* np.vstack([self.embeddings, new_vecs])
VStack(rows, vecs) == rows \o vecs

\* The chunk list replaced by the new chunks.
ExtendReplaces(ds, chunks) == chunks

\* self.docs.extend(chunks)
Extend(ds, chunks) == ds \o chunks

\* The two files when emb.npy is saved first and store.txt after it.
PersistedVectorsFirst(io, docs2, emb2) ==
    CASE io = "ok" ->
           {[store |-> File(WriteStore(docs2)), emb |-> File(emb2.rows)]}
      [] io = "emb_save_fails" ->
           {[store |-> storeFile, emb |-> embFile]}
      [] io = "store_open_fails" ->
           {[store |-> storeFile, emb |-> File(emb2.rows)]}
      [] OTHER ->
           {[store |-> File(WriteStore(SubSeq(docs2, 1, k))), emb |-> File(emb2.rows)] :
               k \in 0 .. Len(docs2) - 1}

\* The two files after the persist step of _add_documents, which writes
\* store.txt and then saves emb.npy, for each outcome of the writes.
Persisted(io, docs2, emb2) ==
    CASE io = "ok" ->
           \* both writes succeed
           {[store |-> File(WriteStore(docs2)), emb |-> File(emb2.rows)]}
      [] io = "store_open_fails" ->
           \* open(store_path, "w") raises: nothing is written
           {[store |-> storeFile, emb |-> embFile]}
      [] io = "store_write_fails" ->
           \* open truncated store.txt; a write raises after k lines
           {[store |-> File(WriteStore(SubSeq(docs2, 1, k))), emb |-> embFile] :
               k \in 0 .. Len(docs2) - 1}
      [] OTHER ->
           \* store.txt is written; np.save raises before it writes
           {[store |-> File(WriteStore(docs2)), emb |-> embFile]}

\* The rest of _add_documents once every chunk of call t has a vector: the end
\* of _embed_texts, the in-memory append and the two writes. No await in it.
AddDocuments(t, vecs, io) ==
    IF \/ ~Homogeneous(vecs)
       \/ (~embeddings.none /\ ~Stackable(embeddings.rows, vecs))
    THEN \* ValueError out of np.array or np.vstack, before any assignment
         /\ io = "ok"
         /\ ingest' = [ingest EXCEPT ![t].pc = "failed", ![t].vectors = vecs,
                                     ![t].i = Len(ingest[t].chunks)]
         /\ UNCHANGED <<docs, embeddings, storeFile, embFile>>
    ELSE LET emb2 == IF embeddings.none
                     THEN Matrix(vecs)
                     ELSE Matrix(VStack(embeddings.rows, vecs))
             docs2 == Extend(docs, ingest[t].chunks)
         IN /\ embeddings' = emb2
            /\ docs' = docs2
            /\ ingest' = [ingest EXCEPT
                            ![t].pc = IF io = "ok" THEN "done" ELSE "failed",
                            ![t].vectors = vecs,
                            ![t].i = Len(ingest[t].chunks)]
            /\ \E f \in Persisted(io, docs2, emb2) :
                  /\ storeFile' = f.store
                  /\ embFile' = f.emb

\* save_and_ingest up to its first await on the backend: the upload is read,
\* its text extracted and cut into n chunks; _add_documents returns at once
\* when there is none.
\* base records the corpus length the call started on; no action reads it.
StartIngest(t, n) ==
    /\ ingest[t].pc = "idle"
    /\ ingest' = [ingest EXCEPT ![t] =
                    [pc |-> IF n = 0 THEN "done" ELSE "embedding",
                     upload |-> "readable",
                     chunks |-> ChunksOf(t, n),
                     i |-> 0,
                     vectors |-> <<>>,
                     base |-> Len(docs)]]
    /\ UNCHANGED <<docs, embeddings, storeFile, embFile, backendDim>>
    /\ UNCHANGED besideRag

\* save_and_ingest of a .pdf upload whose bytes PdfReader cannot parse:
\* _pdf_to_text raises, and nothing around it catches.
StartIngestCorruptPdf(t) ==
    /\ ingest[t].pc = "idle"
    /\ ingest' = [ingest EXCEPT ![t] =
                    [pc |-> "failed",
                     upload |-> "corrupt_pdf",
                     chunks |-> <<>>,
                     i |-> 0,
                     vectors |-> <<>>,
                     base |-> Len(docs)]]
    /\ UNCHANGED <<docs, embeddings, storeFile, embFile, backendDim>>
    /\ UNCHANGED besideRag

\* The await of ollama.embed for the next chunk of call t ends; after the last
\* chunk the call runs to its end.
EmbedReturns(t, outcome, io) ==
    /\ ingest[t].pc = "embedding"
    /\ LET i2 == ingest[t].i + 1
           vecs == EmbedOne(ingest[t].vectors, ingest[t].chunks[i2], outcome)
       IN IF i2 < Len(ingest[t].chunks)
          THEN /\ io = "ok"
               /\ ingest' = [ingest EXCEPT ![t].i = i2, ![t].vectors = vecs]
               /\ UNCHANGED <<docs, embeddings, storeFile, embFile>>
          ELSE AddDocuments(t, vecs, io)
    /\ UNCHANGED backendDim
    /\ UNCHANGED besideRag

\* The process ends (killed, or crashed) and a new one starts: the calls in
\* flight are gone and RagPipeline.__init__ loads what is on disk.
Restart ==
    /\ ingest' = [t \in IngestIds |->
                    IF ingest[t].pc = "embedding"
                    THEN [ingest[t] EXCEPT !.pc = "killed"]
                    ELSE ingest[t]]
    /\ docs' = LoadDocs(storeFile)
    /\ embeddings' = LoadEmbeddings(embFile)
    /\ UNCHANGED <<storeFile, embFile, backendDim>>
    /\ UNCHANGED besideRag

\* ============================================================== retrieve
\* What the retrieve actions leave alone.
besideRetr ==
    <<ragVars, fuseVars, chatVars, hashVars, chunkVars, memVars, webVars, servVars>>

\* The top_k values passed to retrieve.
TopKs == 1 .. MaxTopK

\* The values a dot product of a row with the query vector may take.
SimValues == {0, 1}

\* The query text.
Query == <<"q">>

\* retrieve without its guard.
NoEmptyGuard(e, ds) == FALSE

\* `self.embeddings is None or not self.docs`
IsEmptyCorpus(e, ds) == e.none \/ ds = <<>>

\* `self.embeddings @ qv` raises ValueError unless every row is as long as qv.
MatMulFits(rows, qv) == \A i \in 1 .. Len(rows) : rows[i].dim = qv.dim

\* np.argsort(keys) with the default kind, which is not stable: every order
\* of the indices that is ascending in keys is a possible result.
ArgsortOutcomes(keys) ==
    {p \in Permutations(1 .. Len(keys)) :
        \A a, b \in 1 .. Len(keys) : a < b => keys[p[a]] <= keys[p[b]]}

\* p[:k]
Take(p, k) == SubSeq(p, 1, IF k < Len(p) THEN k ELSE Len(p))

\* The chunk list as it was when retrieve was called.
DocsReadAtStart(r) == SubSeq(docs, 1, r.base)

\* self.docs as the list comprehension of retrieve reads it
DocsRead(r) == docs

\* retrieve(query, top_k) up to run_until_complete. On an empty corpus it
\* returns [] at once. Otherwise, called from the chat handler (the loop is
\* running), run_until_complete raises RuntimeError before anything is
\* embedded; called with the loop stopped, the loop runs until the query is
\* embedded, and pending ingest tasks run with it.
\* base records the corpus length at the call.
RetrieveCall(k, running) ==
    [pc |-> IF IsEmptyCorpus(embeddings, docs) \/ running
            THEN "done" ELSE "embedding",
     status |-> IF IsEmptyCorpus(embeddings, docs) THEN "ok"
                ELSE IF running THEN "loop_running" ELSE "pending",
     topK |-> k,
     base |-> Len(docs),
     embedded |-> FALSE,
     nRows |-> 0,
     nDocs |-> 0,
     sims |-> <<>>,
     idxs |-> <<>>,
     out |-> <<>>]

\* A call of retrieve by itself.
RetrieveStart(k, running) ==
    /\ retrieval.pc = "idle"
    /\ retrieval' = RetrieveCall(k, running)
    /\ UNCHANGED besideRetr

\* run_until_complete returns the query vector (the backend's, or the
\* fallback); the rest of retrieve runs with no await: the dot products, the
\* argsort, the slice and the list comprehension.
RetrieveEmbedded(outcome) ==
    /\ retrieval.pc = "embedding"
    /\ LET qv == EmbedOne(<<>>, Query, outcome)[1]
           ds == DocsRead(retrieval)
       IN IF ~MatMulFits(embeddings.rows, qv)
          THEN retrieval' = [retrieval EXCEPT
                               !.pc = "done", !.status = "shape_error",
                               !.embedded = TRUE,
                               !.nRows = Len(embeddings.rows), !.nDocs = Len(ds)]
          ELSE \E sims \in [1 .. Len(embeddings.rows) -> SimValues] :
               \E idxs \in {Take(p, retrieval.topK) :
                              p \in ArgsortOutcomes([i \in 1 .. Len(sims) |-> 0 - sims[i]])} :
                     retrieval' =
                       IF \E a \in 1 .. Len(idxs) : idxs[a] > Len(ds)
                       THEN [retrieval EXCEPT
                               !.pc = "done", !.status = "index_error",
                               !.embedded = TRUE, !.sims = sims, !.idxs = idxs,
                               !.nRows = Len(embeddings.rows), !.nDocs = Len(ds)]
                       ELSE [retrieval EXCEPT
                               !.pc = "done", !.status = "ok",
                               !.embedded = TRUE, !.sims = sims, !.idxs = idxs,
                               !.out = [a \in 1 .. Len(idxs) |-> ds[idxs[a]]],
                               !.nRows = Len(embeddings.rows), !.nDocs = Len(ds)]
    /\ UNCHANGED besideRetr

\* ================================================================ _chunk
\* What the _chunk action leaves alone.
besideChunk ==
    <<ragVars, fuseVars, retrVars, chatVars, hashVars, memVars, webVars, servVars>>

\* text.split() of a text of n words: the words, each named by its position.
\* A chunk is kept as the list of its words, which " ".join makes one string.
Words(n) == [i \in 1 .. n |-> i]

\* The chunk is closed only once it is longer than max_tokens.
IsFullAbove(current) == Len(current) > MaxTokens

\* `len(current) >= max_tokens`
IsFull(current) == Len(current) >= MaxTokens

\* _chunk after text.split(): the loop has consumed no word.
NoChunks == [pc |-> "loop", i |-> 0, current |-> <<>>, chunks |-> <<>>]

\* One iteration of `for w in words`.
ChunkWord ==
    /\ chunkOut.pc = "loop"
    /\ chunkOut.i < chunkIn
    /\ LET cur2 == Append(chunkOut.current, Words(chunkIn)[chunkOut.i + 1])
       IN chunkOut' =
            IF IsFull(cur2)
            THEN [chunkOut EXCEPT !.i = @ + 1, !.current = <<>>,
                                  !.chunks = Append(@, cur2)]
            ELSE [chunkOut EXCEPT !.i = @ + 1, !.current = cur2]
    /\ UNCHANGED chunkIn
    /\ UNCHANGED besideChunk

\* The end of the loop: the words left in current make the last chunk, and
\* _chunk returns.
ChunkReturn ==
    /\ chunkOut.pc = "loop"
    /\ chunkOut.i = chunkIn
    /\ chunkOut' =
         [chunkOut EXCEPT
            !.pc = "returned",
            !.chunks = IF chunkOut.current # <<>>
                       THEN Append(@, chunkOut.current) ELSE @,
            !.current = <<>>]
    /\ UNCHANGED chunkIn
    /\ UNCHANGED besideChunk

\* ====================================================== fallback embedding
\* What the fallback actions leave alone.
besideHash ==
    <<ragVars, fuseVars, retrVars, chatVars, chunkVars, memVars, webVars, servVars>>

\* The keys a process may draw for str.__hash__ when it starts.
HashKeys == 1 .. MaxHashKeys

\* The texts the fallback is asked to embed.
HashTexts == {ChunksOf(0, MaxChunks)[k] : k \in 1 .. MaxChunks} \cup {Query}

\* The code point of a character of these texts.
CharCode(ch) ==
    CASE ch = " " -> 32
      [] ch = "c" -> 99
      [] ch = "q" -> 113
      [] ch = "u" -> 117
      [] OTHER -> 47 + (CHOOSE d \in 1 .. 10 : Digits[d] = ch)

RECURSIVE KeyedSum(_, _)
\* A keyed hash of the characters of t, 20 bits wide.
KeyedSum(t, acc) ==
    IF t = <<>> THEN acc
    ELSE KeyedSum(Tail(t), (acc * 33 + CharCode(Head(t))) % 1048576)

\* hash(t) in a process whose key is key: a signed value that depends on the
\* text and on the key. (CPython keys SipHash with the per-process secret; the
\* sum above stands for it, on fewer bits.)
StrHash(t, key) == KeyedSum(t, key * 7919) - 524288

Abs(x) == IF x < 0 THEN 0 - x ELSE x

\* seed = abs(hash(t)) % (10**8)
FallbackSeed(t, key) == Abs(StrHash(t, key)) % SeedModulus

\* np.random.default_rng(seed).standard_normal(384), normalized: the draws are
\* a function of the seed.
FallbackDraw(seed) == [seed |-> seed, dim |-> FallbackDim]

\* The except branch of _embed_texts for the text t: the vector is derived and
\* appended. fbLog keeps it with its text.
FallbackEmbed(t) ==
    /\ fbLog' = fbLog \cup
                  {[text |-> t, vector |-> FallbackDraw(FallbackSeed(t, hashSeed))]}
    /\ UNCHANGED hashSeed
    /\ UNCHANGED besideHash

\* The process ends and a new one starts, with the key it draws.
ProcessRestart(key) ==
    /\ hashSeed' = key
    /\ UNCHANGED fbLog
    /\ UNCHANGED besideHash

\* retrieve has not been called.
NoRetrieval == [pc |-> "idle"]

\* No context block.
NoGuidance == [history |-> <<>>, retrieved |-> <<>>]

\* The session ids of the chat requests.
Sessions == {"s1", "s2"}

\* The chat requests of the clients.
ReqIds == 1 .. MaxReqs

\* A request that has not come.
IdleReq == [pc |-> "idle", session |-> "none", tools |-> <<>>]

\* No caller holds a list.
NoList == [held |-> FALSE, changed |-> FALSE, session |-> "none", shared |-> FALSE]

IdleIngest ==
    [pc |-> "idle", upload |-> "none", chunks |-> <<>>, i |-> 0, vectors |-> <<>>,
     base |-> 0]

\* A fresh data directory, and RagPipeline.__init__ on it.
RagInit ==
    /\ storeFile = NoFile
    /\ embFile = NoFile
    /\ docs = LoadDocs(NoFile)
    /\ embeddings = LoadEmbeddings(NoFile)
    /\ ingest = [t \in IngestIds |-> IdleIngest]
    /\ backendDim \in BackendDims

FuseIdle ==
    /\ fpc = "idle"
    /\ calls = <<>>
    /\ completed = <<>>
    /\ reply = <<>>

\* retrieve has not been called and no chat request has come.
ChatIdle ==
    /\ retrieval = NoRetrieval
    /\ hpc = "idle"
    /\ guidance = NoGuidance

\* The process has its hash seed and has derived no fallback vector.
HashIdle ==
    /\ hashSeed = 1
    /\ fbLog = {}

\* _chunk has not been called.
ChunkIdle ==
    /\ chunkIn = 0
    /\ chunkOut = NoChunks

\* ShortTermMemory.__init__: no session has a turn.
MemIdle ==
    /\ memory = [s \in Sessions |-> <<>>]
    /\ added = [s \in Sessions |-> <<>>]

\* The settings as loaded with no ALLOW_WEB_ACCESS in the environment, an
\* empty conversations table, and no request yet.
ServeIdle ==
    /\ allowWeb = TRUE
    /\ searches = {}
    /\ reqs = [r \in ReqIds |-> IdleReq]
    /\ longTerm = <<>>
    /\ got = NoList

RestIdle == ChatIdle /\ HashIdle /\ ChunkIdle /\ MemIdle /\ ServeIdle

Init == RagInit /\ FuseIdle /\ RestIdle

\* Ingest calls on one event loop, the disk never failing.
Next ==
    \/ \E t \in IngestIds : \E n \in 0 .. MaxChunks : StartIngest(t, n)
    \/ \E t \in IngestIds : StartIngestCorruptPdf(t)
    \/ \E t \in IngestIds : \E o \in EmbedOutcomes : EmbedReturns(t, o, "ok")
    \/ Restart

Spec == Init /\ [][Next]_vars

\* The same, with writes that may fail.
NextCrash ==
    \/ \E t \in IngestIds : \E n \in 0 .. MaxChunks : StartIngest(t, n)
    \/ \E t \in IngestIds : StartIngestCorruptPdf(t)
    \/ \E t \in IngestIds : \E o \in EmbedOutcomes : \E io \in IOOutcomes :
          EmbedReturns(t, o, io)
    \/ Restart

SpecCrash == Init /\ [][NextCrash]_vars

\* A data directory that an earlier run left n0 chunks in, all embedded by the
\* backend or all by the fallback, and RagPipeline.__init__ on it.
LoadedInit ==
    /\ backendDim \in BackendDims
    /\ \E n0 \in 0 .. MaxPrior : \E how \in {"vector", "error"} :
          LET cs == ChunksOf(0, n0)
              rows == [i \in 1 .. n0 |-> EmbedOne(<<>>, cs[i], how)[1]]
          IN /\ storeFile = IF n0 = 0 THEN NoFile ELSE File(WriteStore(cs))
             /\ embFile = IF n0 = 0 THEN NoFile ELSE File(rows)
    /\ docs = LoadDocs(storeFile)
    /\ embeddings = LoadEmbeddings(embFile)
    /\ ingest = [t \in IngestIds |-> IdleIngest]

InitRetrieve == LoadedInit /\ FuseIdle /\ RestIdle

\* One retrieve beside one ingest call.
NextRetrieve ==
    \/ \E n \in 0 .. MaxChunks : StartIngest(1, n)
    \/ \E outcome \in EmbedOutcomes : EmbedReturns(1, outcome, "ok")
    \/ \E k \in TopKs : \E running \in BOOLEAN : RetrieveStart(k, running)
    \/ \E outcome \in EmbedOutcomes : RetrieveEmbedded(outcome)

SpecRetrieve == InitRetrieve /\ [][NextRetrieve]_vars

\* One ingest call, with writes that may fail, on the corpus an earlier run
\* left.
InitPersist == LoadedInit /\ FuseIdle /\ RestIdle

NextPersist ==
    \/ \E n \in 0 .. MaxChunks : StartIngest(1, n)
    \/ \E o \in EmbedOutcomes : \E io \in IOOutcomes : EmbedReturns(1, o, io)

SpecPersist == InitPersist /\ [][NextPersist]_vars

\* The word counts at and next to the multiples of max_tokens.
WordCounts ==
    {0, 1} \cup {k * MaxTokens + d : k \in 1 .. MaxSpans, d \in {0 - 1, 0, 1}}

\* _chunk on a text of one of these word counts.
InitChunk ==
    /\ RagInit /\ backendDim = FallbackDim
    /\ FuseIdle /\ ChatIdle /\ HashIdle /\ MemIdle /\ ServeIdle
    /\ chunkIn \in WordCounts
    /\ chunkOut = NoChunks

NextChunk == ChunkWord \/ ChunkReturn

SpecChunk == InitChunk /\ [][NextChunk]_vars

\* A process with any key, before it derived a fallback vector.
InitHash ==
    /\ RagInit /\ backendDim = FallbackDim
    /\ FuseIdle /\ ChatIdle /\ ChunkIdle /\ MemIdle /\ ServeIdle
    /\ hashSeed \in HashKeys
    /\ fbLog = {}

NextHash ==
    \/ \E t \in HashTexts : FallbackEmbed(t)
    \/ \E key \in HashKeys : ProcessRestart(key)

SpecHash == InitHash /\ [][NextHash]_vars

\* ================================================================ fusion
\* A string is the sequence of its characters.
\* What fuse returns when no model gave a usable answer.
Sentinel == <<"(no answer)">>

\* The answers a model may give: empty, blank, three spellings of one answer
\* (case, trailing newline) and two of another (case, leading and inner
\* whitespace).
Answers ==
    { <<>>,
      <<" ">>,
      <<"P">>,
      <<"p">>,
      <<"p", "\n">>,
      <<" ", "l", " ", "p">>,
      <<"L", " ", " ", "p">> }

\* str.isspace, on the characters of Answers
IsSpace(c) == c \in {" ", "\n"}

\* str.lower, on one character
LowerChar(c) == CASE c = "P" -> "p" [] c = "L" -> "l" [] OTHER -> c

\* str.lower
Lower(s) == [i \in 1 .. Len(s) |-> LowerChar(s[i])]

RECURSIVE LStrip(_)
\* str.lstrip
LStrip(s) ==
    IF s = <<>> THEN <<>>
    ELSE IF IsSpace(Head(s)) THEN LStrip(Tail(s)) ELSE s

RECURSIVE RStrip(_)
\* str.rstrip
RStrip(s) ==
    IF s = <<>> THEN <<>>
    ELSE IF IsSpace(s[Len(s)]) THEN RStrip(SubSeq(s, 1, Len(s) - 1)) ELSE s

\* str.strip
Strip(s) == RStrip(LStrip(s))

RECURSIVE WordEnd(_, _)
\* The index of the last character of the word that starts at s[k].
WordEnd(s, k) ==
    IF k < Len(s) /\ ~IsSpace(s[k + 1]) THEN WordEnd(s, k + 1) ELSE k

RECURSIVE Split(_)
\* str.split(): the maximal runs of characters that are not whitespace
Split(s) ==
    LET t == LStrip(s)
    IN IF t = <<>> THEN <<>>
       ELSE LET e == WordEnd(t, 1)
            IN <<SubSeq(t, 1, e)>> \o Split(SubSeq(t, e + 1, Len(t)))

RECURSIVE Join(_)
\* " ".join(words)
Join(ws) ==
    IF ws = <<>> THEN <<>>
    ELSE IF Len(ws) = 1 THEN ws[1]
    ELSE ws[1] \o <<" ">> \o Join(Tail(ws))

\* MultiModelOrchestrator._normalize
Normalize(s) == Join(Split(Lower(s)))

\* How often x occurs in xs.
Count(xs, x) == Cardinality({i \in 1 .. Len(xs) : xs[i] = x})

RECURSIVE Keys(_)
\* Counter(xs): its keys, in the order of their first occurrence (a dict keeps
\* insertion order)
Keys(xs) ==
    IF xs = <<>> THEN <<>>
    ELSE LET r == Keys(SubSeq(xs, 1, Len(xs) - 1))
             x == xs[Len(xs)]
         IN IF \E i \in 1 .. Len(r) : r[i] = x THEN r ELSE Append(r, x)

RECURSIVE MaxFirst(_, _, _)
\* max(items, key=count): the first of the keys with the largest count
MaxFirst(ks, xs, best) ==
    IF ks = <<>> THEN best
    ELSE MaxFirst(Tail(ks), xs,
                  IF Count(xs, Head(ks)) > Count(xs, best) THEN Head(ks) ELSE best)

RECURSIVE MaxLast(_, _, _)
\* The last of the keys with the largest count.
MaxLast(ks, xs, best) ==
    IF ks = <<>> THEN best
    ELSE MaxLast(Tail(ks), xs,
                 IF Count(xs, Head(ks)) >= Count(xs, best) THEN Head(ks) ELSE best)

\* Ties go to the group seen last.
MostCommonLast(xs) == LET ks == Keys(xs) IN MaxLast(Tail(ks), xs, Head(ks))

\* Counter(xs).most_common(1)[0][0], xs not empty
MostCommon(xs) == LET ks == Keys(xs) IN MaxFirst(Tail(ks), xs, Head(ks))

\* The answers are kept in their normalized form.
NonEmptyNormalized(answers) ==
    LET kept == SelectSeq(answers, LAMBDA a : a # <<>> /\ Strip(a) # <<>>)
    IN [i \in 1 .. Len(kept) |-> Normalize(kept[i])]

\* non_empty = [a.strip() for a in answers if a and a.strip()]
NonEmpty(answers) ==
    LET kept == SelectSeq(answers, LAMBDA a : a # <<>> /\ Strip(a) # <<>>)
    IN [i \in 1 .. Len(kept) |-> Strip(kept[i])]

RECURSIVE Longest(_)
\* max(non_empty, key=len): the first of the longest
Longest(xs) ==
    IF Len(xs) = 1 THEN xs[1]
    ELSE LET r == Longest(SubSeq(xs, 1, Len(xs) - 1))
         IN IF Len(xs[Len(xs)]) > Len(r) THEN xs[Len(xs)] ELSE r

\* chat from `non_empty = ...` to its return: the fusion of the gathered answers
Fuse(answers) ==
    LET non_empty == NonEmpty(answers)
    IN IF non_empty = <<>> THEN Sentinel
       ELSE LET normalized == [i \in 1 .. Len(non_empty) |-> Normalize(non_empty[i])]
                best_norm == MostCommon(normalized)
                candidates == SelectSeq(non_empty, LAMBDA a : Normalize(a) = best_norm)
            IN IF candidates # <<>> THEN candidates[1] ELSE Longest(non_empty)

\* ask answers with the text of the error.
AskErrorText(c) == IF c.st = "returned" THEN c.ans ELSE <<"e", "r", "r">>

\* What ask(model_name) returns: the backend's answer, or "" from its except branch.
Ask(c) == IF c.st = "returned" THEN c.ans ELSE <<>>

\* ask catches nothing.
AskCatchesNothing(kind) == FALSE

\* ask catches everything (except BaseException).
AskCatchesAll(kind) == TRUE

\* `except Exception` in ask: asyncio.CancelledError is a BaseException and is
\* not caught; HTTP errors and timeouts are.
AskCatches(kind) == kind = "Exception"

\* The answers in the order the calls finished.
GatherByCompletion(cs, order) == [k \in 1 .. Len(order) |-> Ask(cs[order[k]])]

\* asyncio.gather: the results in the order of the awaitables, whatever the
\* order they finished in.
Gather(cs, order) == [i \in 1 .. Len(cs) |-> Ask(cs[i])]

\* One call at a time: the next one starts when none is in flight.
ToStartSequential(cs) ==
    LET waiting == {i \in 1 .. Len(cs) : cs[i].st = "notstarted"}
    IN IF waiting = {} \/ (\E i \in 1 .. Len(cs) : cs[i].st = "inflight")
       THEN {}
       ELSE {CHOOSE i \in waiting : \A j \in waiting : i <= j}

\* asyncio.gather(*(ask(m) for m in model_list)): every coroutine is scheduled
\* as a task at once.
ToStart(cs) == {i \in 1 .. Len(cs) : cs[i].st = "notstarted"}

\* The calls, those of ToStart now in flight.
Started(cs) ==
    [i \in 1 .. Len(cs) |->
        IF i \in ToStart(cs) THEN [cs[i] EXCEPT !.st = "inflight"] ELSE cs[i]]

\* MultiModelOrchestrator.chat up to its await of gather, for a list of n models.
ChatStart(n) ==
    /\ fpc = "idle"
    /\ fpc' = "waiting"
    /\ calls' = Started([i \in 1 .. n |-> [st |-> "notstarted", ans |-> <<>>]])
    /\ UNCHANGED <<completed, reply>>
    /\ UNCHANGED besideFuse

\* self.ollama.chat of call i returns the answer a.
CallReturns(i, a) ==
    /\ fpc = "waiting"
    /\ i \in 1 .. Len(calls)
    /\ calls[i].st = "inflight"
    /\ calls' = Started([calls EXCEPT ![i] = [st |-> "returned", ans |-> a]])
    /\ completed' = Append(completed, i)
    /\ UNCHANGED <<fpc, reply>>
    /\ UNCHANGED besideFuse

\* self.ollama.chat of call i raises: a non-success response, a timeout, no
\* connection. ask absorbs it; uncaught, it would end the request.
CallRaises(i) ==
    /\ fpc = "waiting"
    /\ i \in 1 .. Len(calls)
    /\ calls[i].st = "inflight"
    /\ calls' = Started([calls EXCEPT ![i] = [st |-> "raised", ans |-> <<>>]])
    /\ completed' = Append(completed, i)
    /\ fpc' = IF AskCatches("Exception") THEN fpc ELSE "error"
    /\ UNCHANGED reply
    /\ UNCHANGED besideFuse

\* Every call has finished: gather returns, chat fuses and returns.
FuseAnswers ==
    /\ fpc = "waiting"
    /\ \A i \in 1 .. Len(calls) : calls[i].st \in {"returned", "raised"}
    /\ reply' = Fuse(Gather(calls, completed))
    /\ fpc' = "done"
    /\ UNCHANGED <<calls, completed>>
    /\ UNCHANGED besideFuse

\* The caller cancels the request while chat awaits gather: gather cancels
\* its children that are not done, and CancelledError is raised in each.
Cancel ==
    /\ fpc = "waiting"
    /\ fpc' = "cancelled"
    /\ calls' = [i \in 1 .. Len(calls) |->
                    IF calls[i].st = "inflight"
                    THEN [calls[i] EXCEPT !.st =
                            IF AskCatches("CancelledError") THEN "raised" ELSE "cancelled"]
                    ELSE calls[i]]
    /\ UNCHANGED <<completed, reply>>
    /\ UNCHANGED besideFuse

\* One fused chat request.
NextFuse ==
    \/ \E n \in 1 .. MaxModels : ChatStart(n)
    \/ \E i \in 1 .. MaxModels : \E a \in Answers : CallReturns(i, a)
    \/ \E i \in 1 .. MaxModels : CallRaises(i)
    \/ FuseAnswers
    \/ Cancel

\* ========================================================== /api/chat
\* The answers of the models in the handler's specification.
ChatAnswers == {<<>>, <<"p">>}

\* chat from its start to the call of the orchestrator: with use_rag it calls
\* rag.retrieve from the running loop, and an error of retrieve ends the
\* request; then it builds the context blocks. (No image, no tool.)
ChatRequest(useRag) ==
    /\ hpc = "idle"
    /\ LET r == IF useRag THEN RetrieveCall(ChatTopK, TRUE) ELSE retrieval
           failed == useRag /\ r.status # "ok"
       IN /\ retrieval' = r
          /\ hpc' = IF failed THEN "error" ELSE "ready"
          /\ guidance' = IF failed THEN guidance
                         ELSE [history |-> <<>>,
                               retrieved |-> IF useRag THEN r.out ELSE <<>>]
    /\ UNCHANGED <<ragVars, fuseVars, hashVars, chunkVars, memVars, webVars, servVars>>

\* `await orchestrator.chat(..., context=guidance, ...)` with n models.
ChatDispatch(n) ==
    /\ hpc = "ready"
    /\ ChatStart(n)

\* The orchestrator returned: the handler returns the reply.
ChatReply ==
    /\ hpc = "ready"
    /\ fpc = "done"
    /\ hpc' = "replied"
    /\ UNCHANGED <<guidance, retrieval>>
    /\ UNCHANGED <<ragVars, fuseVars, hashVars, chunkVars, memVars, webVars, servVars>>

\* One chat request on the corpus an earlier run left.
InitChat == LoadedInit /\ backendDim = FallbackDim /\ FuseIdle /\ RestIdle

NextChat ==
    \/ \E useRag \in BOOLEAN : ChatRequest(useRag)
    \/ \E n \in 1 .. MaxModels : ChatDispatch(n)
    \/ \E i \in 1 .. MaxModels : \E a \in ChatAnswers : CallReturns(i, a)
    \/ \E i \in 1 .. MaxModels : CallRaises(i)
    \/ FuseAnswers
    \/ ChatReply

SpecChat == InitChat /\ [][NextChat]_vars

\* ===================================================== short-term memory
\* What the memory actions leave alone.
besideMem ==
    <<ragVars, fuseVars, retrVars, chatVars, hashVars, chunkVars, webVars, servVars>>

\* The k-th turn added to a session since its last clear: the roles alternate
\* and the content names the turn.
Turn(k) == [role |-> IF k % 2 = 1 THEN "user" ELSE "assistant", content |-> k]

\* The first 50 turns of the list.
KeepFirst(l) == SubSeq(l, 1, MemCap)

\* self._memory[session_id][-50:]
KeepLast(l) == SubSeq(l, Len(l) - MemCap + 1, Len(l))

\* The turn appended to the list of every session.
AddTurnToAll(mem, s, t) ==
    [x \in DOMAIN mem |->
        LET l == Append(mem[x], t)
        IN IF Len(l) > MemCap THEN KeepLast(l) ELSE l]

\* The body of ShortTermMemory.add on the store mem: the turn is appended to
\* the list of session s, which is cut to its last 50 when it has more.
AddTurn(mem, s, t) ==
    LET l == Append(mem[s], t)
    IN [mem EXCEPT ![s] = IF Len(l) > MemCap THEN KeepLast(l) ELSE l]

\* ShortTermMemory.add: append, then cut to the last 50 when there are more.
MemAdd(s) ==
    /\ Len(added[s]) < MaxAdds
    /\ LET t == Turn(Len(added[s]) + 1)
       IN /\ memory' = AddTurn(memory, s, t)
          /\ added' = [added EXCEPT ![s] = Append(@, t)]
    /\ UNCHANGED besideMem

\* ShortTermMemory.clear: the session's list is dropped.
MemClear(s) ==
    /\ memory' = [memory EXCEPT ![s] = <<>>]
    /\ added' = [added EXCEPT ![s] = <<>>]
    /\ UNCHANGED besideMem

\* ShortTermMemory.get: a copy of the session's list, empty for a session
\* without one.
MemGet(s) == memory[s]

InitMem == Init /\ backendDim = FallbackDim

NextMem ==
    \/ \E s \in Sessions : MemAdd(s)
    \/ \E s \in Sessions : MemClear(s)

SpecMem == InitMem /\ [][NextMem]_vars

\* ============================================ /api/chat of several clients
\* The names in TOOLS.
ToolNames == {"web_search"}

\* The tool lists of the requests.
ToolLists == {<<>>, <<"web_search">>, <<"other">>}

\* run_tools calls a tool: some listed name is in TOOLS.
CallsATool(tools) == \E k \in 1 .. Len(tools) : tools[k] \in ToolNames

\* The user turn and the assistant turn of request r.
UserTurn(r) == [role |-> "user", content |-> <<"message", r>>]
AssistantTurn(r) == [role |-> "assistant", content |-> <<"reply", r>>]

\* list(...) in ShortTermMemory.get builds a new list.
GetShares(s) == FALSE

\* Lines 90 to 105 of chat for request r of session s: the user turn is added
\* to the short-term memory and add_message is awaited. (The history read on
\* line 90 goes into the prompt only.)
RememberUser(r, s, tools) ==
    /\ reqs' = [reqs EXCEPT ![r] = [pc |-> "store_user", session |-> s, tools |-> tools]]
    /\ memory' = AddTurn(memory, s, UserTurn(r))
    /\ added' = [added EXCEPT ![s] = Append(@, UserTurn(r))]

\* A chat request for session s comes (no use_rag, no image). With a tool of
\* TOOLS in its list, run_tools awaits tool_web_search, which searches the web;
\* nothing on this path reads allow_web_access. Otherwise the handler runs on
\* to its first await, in add_message.
ChatBegin(r, s, tools) ==
    /\ reqs[r].pc = "idle"
    /\ IF CallsATool(tools)
       THEN /\ reqs' = [reqs EXCEPT ![r] = [pc |-> "tools", session |-> s, tools |-> tools]]
            /\ searches' = searches \cup {[via |-> "chat_tool", allowed |-> allowWeb]}
            /\ UNCHANGED memVars
       ELSE /\ RememberUser(r, s, tools)
            /\ UNCHANGED searches
    /\ UNCHANGED <<allowWeb, longTerm, got>>
    /\ UNCHANGED <<ragVars, fuseVars, retrVars, chatVars, hashVars, chunkVars>>

\* run_tools returns its text, or the search raised (no connection, a
\* non-success response) and the request ends in an error.
ToolsReturn(r, ok) ==
    /\ reqs[r].pc = "tools"
    /\ IF ok
       THEN RememberUser(r, reqs[r].session, reqs[r].tools)
       ELSE /\ reqs' = [reqs EXCEPT ![r].pc = "error"]
            /\ UNCHANGED memVars
    /\ UNCHANGED <<webVars, longTerm, got>>
    /\ UNCHANGED <<ragVars, fuseVars, retrVars, chatVars, hashVars, chunkVars>>

\* add_message: the INSERT of a turn commits; the row gets the next id.
Inserted(rows, s, t) == Append(rows, [session |-> s, role |-> t.role, content |-> t.content])

\* The INSERT of the user turn of request r commits; the handler goes on to
\* await the orchestrator.
UserStored(r) ==
    /\ reqs[r].pc = "store_user"
    /\ longTerm' = Inserted(longTerm, reqs[r].session, UserTurn(r))
    /\ reqs' = [reqs EXCEPT ![r].pc = "asking"]
    /\ UNCHANGED <<memVars, webVars, got>>
    /\ UNCHANGED <<ragVars, fuseVars, retrVars, chatVars, hashVars, chunkVars>>

\* The orchestrator returns the reply: the assistant turn is added to the
\* short-term memory and add_message is awaited.
ChatAnswered(r) ==
    /\ reqs[r].pc = "asking"
    /\ memory' = AddTurn(memory, reqs[r].session, AssistantTurn(r))
    /\ added' = [added EXCEPT ![reqs[r].session] = Append(@, AssistantTurn(r))]
    /\ reqs' = [reqs EXCEPT ![r].pc = "store_assistant"]
    /\ UNCHANGED <<webVars, longTerm, got>>
    /\ UNCHANGED <<ragVars, fuseVars, retrVars, chatVars, hashVars, chunkVars>>

\* The INSERT of the assistant turn commits and the handler returns the reply.
AssistantStored(r) ==
    /\ reqs[r].pc = "store_assistant"
    /\ longTerm' = Inserted(longTerm, reqs[r].session, AssistantTurn(r))
    /\ reqs' = [reqs EXCEPT ![r].pc = "replied"]
    /\ UNCHANGED <<memVars, webVars, got>>
    /\ UNCHANGED <<ragVars, fuseVars, retrVars, chatVars, hashVars, chunkVars>>

\* get_messages(session_id): the rows of the session, newest first, at most
\* LIMIT of them, then reversed.
Reverse(l) == [i \in 1 .. Len(l) |-> l[Len(l) + 1 - i]]
GetMessages(s) ==
    LET mine == SelectSeq(Reverse(longTerm), LAMBDA row : row.session = s)
        newest == SubSeq(mine, 1, IF Len(mine) > LongLimit THEN LongLimit ELSE Len(mine))
    IN [i \in 1 .. Len(newest) |->
           [role |-> Reverse(newest)[i].role, content |-> Reverse(newest)[i].content]]

\* POST /api/settings with allow_web_access = v.
UpdateSettings(v) ==
    /\ allowWeb' = v
    /\ UNCHANGED <<searches, servVars, memVars>>
    /\ UNCHANGED <<ragVars, fuseVars, retrVars, chatVars, hashVars, chunkVars>>

\* GET /api/search: 403 when web access is off, a search otherwise.
SearchEndpoint ==
    /\ searches' = IF allowWeb
                   THEN searches \cup {[via |-> "endpoint", allowed |-> allowWeb]}
                   ELSE searches
    /\ UNCHANGED <<allowWeb, servVars, memVars>>
    /\ UNCHANGED <<ragVars, fuseVars, retrVars, chatVars, hashVars, chunkVars>>

\* Some caller gets the list of session s.
CallerGets(s) ==
    /\ ~got.held
    /\ got' = [held |-> TRUE, changed |-> FALSE, session |-> s, shared |-> GetShares(s)]
    /\ UNCHANGED <<reqs, longTerm, memVars, webVars>>
    /\ UNCHANGED <<ragVars, fuseVars, retrVars, chatVars, hashVars, chunkVars>>

\* A change of a list by its holder: an entry appended, the last one removed,
\* or the list emptied.
Mutated(l, how) ==
    CASE how = "append" -> Append(l, [role |-> "user", content |-> <<"caller", 0>>])
      [] how = "pop" -> SubSeq(l, 1, Len(l) - 1)
      [] OTHER -> <<>>

\* The caller changes the list it got, once. The list is the caller's own
\* unless get handed out the stored one, which then changes with it.
CallerMutates(how) ==
    /\ got.held
    /\ ~got.changed
    /\ got' = [got EXCEPT !.changed = TRUE]
    /\ memory' = IF got.shared
                 THEN [memory EXCEPT ![got.session] = Mutated(@, how)]
                 ELSE memory
    /\ UNCHANGED <<added, reqs, longTerm, webVars>>
    /\ UNCHANGED <<ragVars, fuseVars, retrVars, chatVars, hashVars, chunkVars>>

\* The server with either setting of ALLOW_WEB_ACCESS in its environment.
InitServe ==
    /\ RagInit /\ backendDim = FallbackDim
    /\ FuseIdle /\ ChatIdle /\ HashIdle /\ ChunkIdle /\ MemIdle
    /\ allowWeb \in BOOLEAN
    /\ searches = {}
    /\ reqs = [r \in ReqIds |-> IdleReq]
    /\ longTerm = <<>>
    /\ got = NoList

\* Chat requests with tools beside the settings and search endpoints.
NextWeb ==
    \/ \E r \in ReqIds : \E s \in Sessions : \E tools \in ToolLists : ChatBegin(r, s, tools)
    \/ \E r \in ReqIds : \E ok \in BOOLEAN : ToolsReturn(r, ok)
    \/ \E r \in ReqIds : UserStored(r)
    \/ \E r \in ReqIds : ChatAnswered(r)
    \/ \E r \in ReqIds : AssistantStored(r)
    \/ \E v \in BOOLEAN : UpdateSettings(v)
    \/ SearchEndpoint

SpecWeb == InitServe /\ [][NextWeb]_vars

\* Chat requests of several sessions beside clear and a caller of get.
NextSessions ==
    \/ \E r \in ReqIds : \E s \in Sessions : ChatBegin(r, s, <<>>)
    \/ \E r \in ReqIds : UserStored(r)
    \/ \E r \in ReqIds : ChatAnswered(r)
    \/ \E r \in ReqIds : AssistantStored(r)
    \/ \E s \in Sessions : MemClear(s)
    \/ \E s \in Sessions : CallerGets(s)
    \/ \E how \in {"append", "pop", "clear"} : CallerMutates(how)

\* The sessions read nothing of the settings: one setting stands for both.
InitSessions == InitServe /\ allowWeb = TRUE

SpecSessions == InitSessions /\ [][NextSessions]_vars

\* Chat requests, several of them on one session.
NextRace ==
    \/ \E r \in ReqIds : \E s \in Sessions : ChatBegin(r, s, <<>>)
    \/ \E r \in ReqIds : UserStored(r)
    \/ \E r \in ReqIds : ChatAnswered(r)
    \/ \E r \in ReqIds : AssistantStored(r)

SpecRace == InitSessions /\ [][NextRace]_vars

\* The fusion reads nothing of the corpus: one deployment stands for all.
InitFuse == Init /\ backendDim = FallbackDim

SpecFuse == InitFuse /\ [][NextFuse]_vars

\* ------------------------------------------------------- claims on the corpus
Rows(e) == Len(e.rows)

\* Chunk i and row i belong together: row i was computed from chunk i.
AlignedAt(ds, rows) ==
    /\ Len(ds) = Len(rows)
    /\ \A i \in 1 .. Len(rows) : rows[i].src = ds[i]

\* C1: after every ingest call, whatever mix of backend and fallback vectors
\* its chunks got, there are as many chunks as embedding rows, in memory and
\* in the two persisted artifacts.
C1_ChunkCountEqualsRowCount ==
    /\ Len(docs) = Rows(embeddings)
    /\ Len(LoadDocs(storeFile)) = Rows(LoadEmbeddings(embFile))

\* A call of two chunks completed with one backend and one fallback vector.
C1_Witness ==
    \E t \in IngestIds :
        /\ ingest[t].pc = "done"
        /\ Len(ingest[t].chunks) = 2
        /\ \E i, j \in 1 .. 2 : /\ ingest[t].vectors[i].fallback
                                /\ ~ingest[t].vectors[j].fallback
        /\ Len(docs) >= 2
        /\ storeFile.exists /\ embFile.exists

\* C2: under every interleaving of ingest calls in flight together, what is
\* persisted reloads to as many chunks as rows, every row at the index of the
\* chunk it was computed from; the same holds in memory.
C2_ConcurrentIngestsStayAligned ==
    /\ AlignedAt(LoadDocs(storeFile), LoadEmbeddings(embFile).rows)
    /\ AlignedAt(docs, embeddings.rows)

\* Two calls that both started on the empty corpus have both completed, the
\* call that started with the higher id first.
C2_Witness ==
    /\ \A t \in {1, 2} : /\ ingest[t].pc = "done"
                         /\ ingest[t].chunks # <<>>
                         /\ ingest[t].base = 0
    /\ docs[1] = ChunksOf(2, 1)[1]
    /\ LoadDocs(storeFile) = docs

\* C3: a step in which an ingest call fails leaves store.txt and emb.npy as
\* they were, and leaves them with as many lines as rows.
C3_FailedIngestLeavesDiskUnchanged ==
    [][(\E t \in IngestIds : ingest[t].pc = "embedding" /\ ingest'[t].pc = "failed")
        => /\ storeFile' = storeFile
           /\ embFile' = embFile
           /\ Len(LoadDocs(storeFile')) = Rows(LoadEmbeddings(embFile'))]_vars

\* ---------------------------------------------------------- claims on fusion
Positions == 1 .. Len(calls)

\* The answer the model at position i gave; the empty string when its call
\* failed or has not answered.
AnswerOf(i) == IF calls[i].st = "returned" THEN calls[i].ans ELSE <<>>

\* The positions whose answer is not blank.
Usable == {i \in Positions : Strip(AnswerOf(i)) # <<>>}

\* Every call has ended.
AllEnded == \A i \in Positions : calls[i].st \in {"returned", "raised"}

\* The vote over the answers: the positions that count, the normalized form
\* of each, the votes of each form and the earliest position of each form.
Tally ==
    LET us == Usable
        form == [i \in us |-> Normalize(AnswerOf(i))]
        fs == {form[i] : i \in us}
    IN [usable |-> us,
        form |-> form,
        forms |-> fs,
        votes |-> [f \in fs |-> Cardinality({i \in us : form[i] = f})],
        first |-> [f \in fs |->
                     CHOOSE i \in us : form[i] = f /\ \A j \in us : form[j] = f => i <= j]]

\* The form with the most votes, the one seen first among those that tie.
WinnerIn(t) ==
    CHOOSE f \in t.forms :
        \A g \in t.forms : \/ t.votes[f] > t.votes[g]
                           \/ t.votes[f] = t.votes[g] /\ t.first[f] <= t.first[g]

\* Two forms tie for the most votes.
TieForMost ==
    LET t == Tally
    IN \E f, g \in t.forms : /\ f # g
                             /\ t.votes[f] = t.votes[g]
                             /\ \A h \in t.forms : t.votes[h] <= t.votes[f]

C6_AllUnusableGivesSentinel ==
    (AllEnded /\ Usable = {} /\ fpc # "idle") =>
        /\ fpc # "error"
        /\ fpc = "done" => reply = Sentinel

\* One call raised, one answered "", one answered whitespace.
C6_Witness ==
    /\ fpc = "done"
    /\ reply = Sentinel
    /\ \E i, j, k \in Positions : /\ calls[i].st = "raised"
                                  /\ calls[j].st = "returned" /\ calls[j].ans = <<>>
                                  /\ calls[k].st = "returned" /\ calls[k].ans = <<" ">>

\* C7: a call that raises never fails the request, nor ends the other calls,
\* and the reply is the fusion of the answers with "" in the place of every
\* call that raised.
C7_FailedCallCountsAsEmpty ==
    (\E i \in Positions : calls[i].st = "raised") =>
        /\ fpc # "error"
        /\ fpc = "waiting" => \A j \in Positions : calls[j].st # "cancelled"
        /\ fpc = "done" =>
              reply = Fuse([i \in Positions |->
                              IF calls[i].st = "raised" THEN <<>> ELSE calls[i].ans])

\* The first call raised and a later one decided the reply.
C7_Witness ==
    /\ fpc = "done"
    /\ Len(calls) >= 2
    /\ calls[1].st = "raised"
    /\ completed[1] = 1
    /\ Usable # {}
    /\ reply # Sentinel

\* The orders in which n calls can finish.
Orders(n) == Permutations(1 .. n)

C9_AllCallsStartTogether ==
    \A i \in Positions : calls[i].st # "notstarted"

\* All the calls of a request of several models are in flight at once.
C9_Witness ==
    /\ fpc = "waiting"
    /\ Len(calls) >= 2
    /\ \A i \in Positions : calls[i].st = "inflight"

\* C10: when the request is cancelled while it waits, every call in flight is
\* cancelled, none of them counts as an answer, a call that had ended keeps
\* its result, and the cancelled request goes no further.
C10_CancelCancelsCallsInFlight ==
    [][/\ (fpc = "waiting" /\ fpc' = "cancelled") =>
             \A i \in Positions :
                 IF calls[i].st = "inflight"
                 THEN calls'[i].st = "cancelled"
                 ELSE calls'[i] = calls[i]
       /\ fpc = "cancelled" => (fpc' = "cancelled" /\ calls' = calls /\ reply' = reply)
      ]_vars

\* A request cancelled with one call answered and one in flight.
C10_Witness ==
    /\ fpc = "cancelled"
    /\ \E i, j \in Positions : /\ calls[i].st = "returned" /\ calls[i].ans = <<"P">>
                               /\ calls[j].st = "cancelled"

\* ------------------------------------------------ claims on the persisted form

\* C15: after any sequence of ingest calls whose writes succeed, a pipeline
\* built anew on the same data directory loads a chunk list identical to the
\* one in memory, and an embedding matrix equal to the one in memory.
C15_ReloadEqualsMemory ==
    /\ LoadDocs(storeFile) = docs
    /\ LoadEmbeddings(embFile) = embeddings

\* Two uploads were ingested, three chunks or more, and both files are there.
C15_Witness ==
    /\ \E t1, t2 \in IngestIds :
           /\ t1 # t2
           /\ ingest[t1].pc = "done" /\ Len(ingest[t1].chunks) > 0
           /\ ingest[t2].pc = "done" /\ Len(ingest[t2].chunks) > 0
    /\ Len(docs) >= 3
    /\ storeFile.exists /\ embFile.exists

\* C17: every row of the matrix, in memory and on disk, has 384 columns,
\* whatever the backend returns and whichever chunks fall back, and no ingest
\* of a readable upload ends in an error.
C17_EveryRowHas384Columns ==
    /\ \A i \in 1 .. Rows(embeddings) : embeddings.rows[i].dim = FallbackDim
    /\ \A i \in 1 .. Rows(LoadEmbeddings(embFile)) :
           LoadEmbeddings(embFile).rows[i].dim = FallbackDim
    /\ \A t \in IngestIds : ingest[t].upload = "readable" => ingest[t].pc # "failed"

\* C18: the ingest of a .pdf upload that the PDF reader cannot parse returns
\* normally with zero chunks: no error reaches the caller.
C18_CorruptUploadIsANoOp ==
    \A t \in IngestIds :
        ingest[t].upload = "corrupt_pdf" =>
            /\ ingest[t].pc = "done"
            /\ ingest[t].chunks = <<>>

\* ---------------------------------------------------------- claims on retrieve

\* C11: on a corpus of n >= 1 chunks, retrieve returns exactly min(topK, n)
\* chunk texts, in descending order of similarity, equal similarities in
\* insertion order (the lower index first).
C11_RetrieveReturnsTopKInOrder ==
    (retrieval.pc = "done" /\ retrieval.base > 0) =>
        /\ retrieval.status = "ok"
        /\ Len(retrieval.out) =
              (IF retrieval.topK < retrieval.nRows THEN retrieval.topK
               ELSE retrieval.nRows)
        /\ \A a, b \in 1 .. Len(retrieval.idxs) :
              a < b =>
                 \/ retrieval.sims[retrieval.idxs[a]] > retrieval.sims[retrieval.idxs[b]]
                 \/ /\ retrieval.sims[retrieval.idxs[a]] = retrieval.sims[retrieval.idxs[b]]
                    /\ retrieval.idxs[a] < retrieval.idxs[b]
        /\ \A a \in 1 .. Len(retrieval.idxs) :
              retrieval.out[a] = docs[retrieval.idxs[a]]

\* C12: retrieve on a corpus without chunks returns the empty list, with no
\* error and without asking the backend for a vector.
C12_EmptyCorpusGivesEmptyList ==
    (retrieval.pc # "idle" /\ retrieval.base = 0) =>
        /\ retrieval.pc = "done"
        /\ retrieval.status = "ok"
        /\ retrieval.out = <<>>
        /\ ~retrieval.embedded

\* retrieve was called on the empty corpus of a fresh data directory.
C12_Witness ==
    /\ retrieval.pc = "done"
    /\ retrieval.base = 0
    /\ retrieval.topK = MaxTopK
    /\ docs = <<>> /\ embeddings.none

\* C13: a retrieve that runs while an ingest is in flight reads a chunk list
\* and a matrix of the same length, both from before or both from after the
\* ingest's append, and every index it selects is an index of the chunk list
\* and of the row computed from that chunk.
C13_RetrieveReadsConsistentSnapshot ==
    (retrieval.pc = "done" /\ retrieval.embedded) =>
        /\ retrieval.status # "index_error"
        /\ retrieval.nRows = retrieval.nDocs
        /\ \/ retrieval.nDocs = retrieval.base
           \/ /\ ingest[1].pc = "done"
              /\ retrieval.nDocs = ingest[1].base + Len(ingest[1].chunks)
        /\ \A a \in 1 .. Len(retrieval.idxs) :
              /\ retrieval.idxs[a] \in 1 .. retrieval.nDocs
              /\ embeddings.rows[retrieval.idxs[a]].src = retrieval.out[a]

\* The ingest appended its chunks while retrieve waited for the query vector,
\* and retrieve returned one of the new chunks.
C13_Witness ==
    /\ retrieval.pc = "done" /\ retrieval.status = "ok"
    /\ retrieval.base > 0
    /\ retrieval.nDocs > retrieval.base
    /\ ingest[1].base = retrieval.base
    /\ \E a \in 1 .. Len(retrieval.idxs) : retrieval.idxs[a] > retrieval.base

\* ----------------------------------------------------------- claims on _chunk

RECURSIVE Flatten(_)
Flatten(chunks) ==
    IF chunks = <<>> THEN <<>> ELSE Head(chunks) \o Flatten(Tail(chunks))

\* C14: _chunk cuts a text of n words into ceil(n / 500) chunks: every chunk but
\* the last has exactly 500 words, the last has 1 to 500, none is empty, and
\* the chunks' words in order are the words of the text.
C14_ChunkIsGreedyFill ==
    chunkOut.pc = "returned" =>
        LET cs == chunkOut.chunks
        IN /\ Len(cs) = (chunkIn + MaxTokens - 1) \div MaxTokens
           /\ \A k \in 1 .. Len(cs) - 1 : Len(cs[k]) = MaxTokens
           /\ Len(cs) > 0 => Len(cs[Len(cs)]) \in 1 .. MaxTokens
           /\ Flatten(cs) = Words(chunkIn)
           /\ chunkIn = 0 => cs = <<>>
           /\ chunkIn = MaxTokens => Len(cs) = 1
           /\ chunkIn = MaxTokens + 1 => (Len(cs) = 2 /\ Len(cs[2]) = 1)

\* 501 words were cut into a chunk of 500 and a chunk of one.
C14_Witness ==
    /\ chunkOut.pc = "returned"
    /\ chunkIn = MaxTokens + 1
    /\ Len(chunkOut.chunks) = 2
    /\ Len(chunkOut.chunks[1]) = MaxTokens

\* ------------------------------------------------- claims on the fallback

\* C16: the fallback vector depends on the text only: the same text gets the
\* same vector at every call, in one process and across restarts.
C16_FallbackDependsOnTextOnly ==
    \A a, b \in fbLog : a.text = b.text => a.vector = b.vector

\* ---------------------------------------------------- claims on /api/chat

\* C19: a chat request with use_rag on a corpus with chunks does not end in an
\* error: retrieve returns its chunks before the first model call is
\* dispatched, and they are the retrieved block of the context of the calls.
C19_RagChatRetrievesThenCalls ==
    (hpc # "idle" /\ retrieval.pc # "idle" /\ retrieval.base > 0) =>
        /\ hpc # "error"
        /\ retrieval.pc = "done" /\ retrieval.status = "ok"
        /\ retrieval.out # <<>>
        /\ guidance.retrieved = retrieval.out

\* ------------------------------------------- claims on the short-term memory

\* The last n entries of l.
LastN(l, n) == SubSeq(l, Len(l) - n + 1, Len(l))

\* C20: after any sequence of add and clear, get of a session returns at most
\* 50 turns, and they are, in order, the last min(50, n) of the n turns added
\* to the session since its last clear.
C20_MemoryIsLast50Turns ==
    \A s \in Sessions :
        /\ Len(MemGet(s)) <= MemCap
        /\ MemGet(s) = LastN(added[s],
                             IF Len(added[s]) < MemCap THEN Len(added[s]) ELSE MemCap)

\* A session got 52 turns since its last clear, and keeps turns 3 to 52.
C20_Witness ==
    \E s \in Sessions :
        /\ Len(added[s]) = MemCap + 2
        /\ Len(MemGet(s)) = MemCap
        /\ MemGet(s)[1] = Turn(3)
        /\ MemGet(s)[MemCap] = Turn(MemCap + 2)

\* ------------------------------------------- claims on the corpus lifecycle

\* a is the beginning of b.
IsPrefix(a, b) == Len(a) <= Len(b) /\ SubSeq(b, 1, Len(a)) = a

\* C22: the corpus only grows by appends: at every step the chunk list is a
\* prefix of the next chunk list and the rows are the leading rows of the next
\* matrix, a step of retrieve changes neither the corpus nor its files, and
\* when an ingest call ends successfully the two files load as the corpus in
\* memory.
C22_CorpusOnlyGrowsByIngest ==
    [][/\ IsPrefix(docs, docs')
       /\ IsPrefix(embeddings.rows, embeddings'.rows)
       /\ ~embeddings.none => ~embeddings'.none
       /\ retrieval' # retrieval =>
              /\ docs' = docs /\ embeddings' = embeddings
              /\ storeFile' = storeFile /\ embFile' = embFile
       /\ \A t \in IngestIds :
              (ingest[t].pc # "done" /\ ingest'[t].pc = "done") =>
                  /\ LoadDocs(storeFile') = docs'
                  /\ LoadEmbeddings(embFile') = embeddings'
      ]_vars

\* An ingest appended chunks to the corpus an earlier run left, and a retrieve
\* ran to its end on it.
C22_Witness ==
    /\ ingest[1].pc = "done"
    /\ ingest[1].base > 0
    /\ Len(docs) > ingest[1].base
    /\ IsPrefix(ChunksOf(0, ingest[1].base), docs)
    /\ retrieval.pc = "done" /\ retrieval.embedded
    /\ LoadDocs(storeFile) = docs

\* C23: a step writes store.txt or emb.npy only as the end of an ingest call
\* whose batch is not empty and has a vector for every chunk; emb.npy is never
\* written unless store.txt has been written in full before it; and a call with
\* an empty batch writes nothing.
C23_WritesAfterAllVectorsTextFirst ==
    [][/\ (storeFile' # storeFile \/ embFile' # embFile) =>
              \E t \in IngestIds :
                  /\ ingest[t].pc = "embedding"
                  /\ ingest'[t].pc \in {"done", "failed"}
                  /\ ingest'[t].chunks # <<>>
                  /\ Len(ingest'[t].vectors) = Len(ingest'[t].chunks)
                  /\ \A k \in 1 .. Len(ingest'[t].chunks) :
                         ingest'[t].vectors[k].src = ingest'[t].chunks[k]
       /\ embFile' # embFile => storeFile' = File(WriteStore(docs'))
       /\ \A t \in IngestIds :
              (ingest[t].pc = "idle" /\ ingest'[t].pc # "idle" /\ ingest'[t].chunks = <<>>)
                  => (storeFile' = storeFile /\ embFile' = embFile)
      ]_vars

\* A call wrote store.txt for the old chunk and its two new ones, one of them
\* embedded by the fallback, and failed at np.save: emb.npy is the old one.
C23_Witness ==
    /\ ingest[1].pc = "failed"
    /\ ingest[1].base = 1
    /\ Len(ingest[1].chunks) = 2
    /\ Len(ingest[1].vectors) = 2
    /\ \E k \in 1 .. 2 : ingest[1].vectors[k].fallback
    /\ Len(LoadDocs(storeFile)) = 3
    /\ Rows(LoadEmbeddings(embFile)) = 1

C24_NoSearchWhileWebAccessOff == \A x \in searches : x.allowed

\* ---------------------------------------------------------------------------
\* Sequence a is the end of sequence b.
IsSuffix(a, b) == Len(a) <= Len(b) /\ SubSeq(b, Len(b) - Len(a) + 1, Len(b)) = a

\* Turn u stands before turn a wherever both stand in l.
Precedes(l, u, a) == \A i, j \in 1 .. Len(l) : (l[i] = u /\ l[j] = a) => i < j

\* C25  The two session stores agree on turn order: once no chat request is
\* between its first add and its last INSERT, the short-term turns of every
\* session are a suffix of what get_messages returns for it, and every request's
\* user turn stands before its assistant turn in both stores, however the
\* requests interleaved, several on one session included.
C25_StoresAgreeOnTurnOrder ==
    (\A r \in ReqIds : reqs[r].pc \in {"idle", "replied", "error"}) =>
        \A s \in Sessions :
            /\ IsSuffix(memory[s], GetMessages(s))
            /\ \A r \in ReqIds :
                   /\ Precedes(memory[s], UserTurn(r), AssistantTurn(r))
                   /\ Precedes(GetMessages(s), UserTurn(r), AssistantTurn(r))

====
